---- MODULE Spec2Model ----
(***************************************************************************)
(* Model of the debouncer crate (src/src/lib.rs): PortDebouncer<N, BTNS>   *)
(* and PinDebouncer.                                                       *)
(*                                                                         *)
(* A u32 bit mask is modelled as the set of the positions of its one-bits  *)
(* (a subset of 0..31): `&` is intersection, `!` is the complement in      *)
(* 0..31 and `1 << i` is {i}.                                              *)
(*                                                                         *)
(* A u32 counter is modelled as the integer congruent to it modulo 2^32    *)
(* that lies in -2^31 .. 2^31 - 1: a value v >= 0 is itself, a value       *)
(* v < 0 stands for the u32 2^32 + v (-1 is 4294967295, -4 is 4294967292). *)
(* Subtraction is then plain integer subtraction and the order of u32 is   *)
(* U32Lt.  A subtraction that overflows has two outcomes, one per build:   *)
(* with overflow checks (`overflow_checks`, the debug and test profile)    *)
(* the call panics, recorded in `panicked`; without them (the release      *)
(* profile) the result wraps around and the program goes on.               *)
(*                                                                         *)
(* The constructor arguments are drawn from the range the crate documents  *)
(* (hold_ticks >= N for the port, press_ticks >= 1 and hold_ticks >=       *)
(* press_ticks for the pin), so that `new` itself does not overflow.       *)
(***************************************************************************)
EXTENDS Integers, Sequences, FiniteSets, TLC

\* ---------------------------------------------------------------- bounds
MaxN == 2          \* window lengths N in 1..MaxN
MaxBtns == 2       \* BTNS in 1..MaxBtns (U1 and U2, as the crate's tests instantiate it);
                   \* samples use bits 0..MaxBtns-1; get_state is queried for pins 0..BTNS
MaxHold == 3       \* hold_ticks argument up to MaxHold windows (see PortArgs)
MaxRepeat == 2     \* repeat_ticks argument up to MaxRepeat windows (see PortArgs)
MaxStreak == MaxHold + 2 * MaxRepeat + 1   \* the streak counter never passes this
MaxBelow == 16     \* a wrapped counter is followed down to 2^32 - MaxBelow

\* ------------------------------------------------------------- u32 masks
U32Bits == 0..31
AllOnes == U32Bits                      \* 0xFFFF_FFFF
BitAnd(a, b) == a \cap b                \* a & b
BitNot(a) == U32Bits \ a                \* !a
Shl1(i) == {i}                          \* 1 << i   (i < 32)

BtnStates == {"Pressed", "UnPressed", "Repeat", "Hold", "ChangedToPressed"}

Min(a, b) == IF a < b THEN a ELSE b

\* ------------------------------------------------------------ u32 counters
\* a < b and a >= b as u32 (an integer below 0 stands for itself + 2^32)
U32Lt(a, b) == IF (a < 0) = (b < 0) THEN a < b ELSE b < 0
U32Geq(a, b) == ~U32Lt(a, b)

VARIABLES
    \* type parameters and constructor arguments of the PortDebouncer
    N, BTNS, new_repeat_ticks, new_hold_ticks,
    \* fields of PortDebouncer
    port_states, current_index, last_debounced_state, debounced_state,
    changed_to_pressed, repeat_ticks, hold_ticks, counter,
    \* constructor arguments and fields of PinDebouncer
    pin_new_press_ticks, pin_new_repeat_ticks, pin_new_hold_ticks,
    pin_current_index, pin_last_debounced_state, pin_debounced_state,
    pin_press_ticks, pin_repeat_ticks, pin_hold_ticks, pin_counter,
    \* outcome of the last call: [op, pin, val]
    ret,
    \* the build: TRUE = arithmetic overflow panics, FALSE = it wraps around
    overflow_checks,
    \* a call panicked (arithmetic overflow); the program has stopped
    panicked,
    \* history of the calls made so far (not program state); the per-pin
    \* entries are kept for one pin, `obs`, chosen at construction
    obs,         \* the observed pin
    hist,        \* samples passed to update since the last completed window (a window
                 \* is completed by every N-th update call since construction)
    ones,        \* bits that were 1 in every sample of the last completed window
    lastWin,     \* obs in the last completed window: "none", "zeros", "mixed", "ones"
    streak,      \* consecutive completed windows with obs 1 in every sample
    polled,      \* polling of obs during the streak: "due" = every earlier window of
                 \* the streak was polled exactly once and the last completed window
                 \* not yet; "once" = that window has now been polled once as well;
                 \* "off" = some window was polled twice or not at all
    zeroRun,     \* most recent consecutive update calls with obs 0 (saturates at N)
    repeated,    \* PinDebouncer: get_state has returned Repeat since the last completed window
    \* history kept only where a PinDebouncer runs (PinSpec, BothSpec)
    prompt,      \* "done" = so far get_state was called exactly once after every
                 \* completed window, before the next update, and at no other time;
                 \* "due" = the same, the last completed window not polled yet; "off"
    before,      \* the last completed window that was not all-true: "none", "zeros", "mixed"
    \* BothSpec: outcome of the PinDebouncer's last call (ret holds the PortDebouncer's)
    pin_ret,
    \* SoloSpec: a second PortDebouncer, built with the same arguments, that is fed
    \* only bit obs of every sample and asked only for pin obs; the value its last
    \* get_state returned
    solo, solo_ret

portParams == <<N, BTNS, new_repeat_ticks, new_hold_ticks, repeat_ticks, hold_ticks>>
portFields == <<port_states, current_index, last_debounced_state, debounced_state,
                changed_to_pressed, counter>>
pinParams == <<pin_new_press_ticks, pin_new_repeat_ticks, pin_new_hold_ticks,
               pin_press_ticks, pin_repeat_ticks, pin_hold_ticks>>
pinFields == <<pin_current_index, pin_last_debounced_state, pin_debounced_state, pin_counter>>
history == <<obs, hist, ones, lastWin, streak, polled, zeroRun, repeated>>
pinHistory == <<prompt, before>>
second == <<pin_ret, solo, solo_ret>>
vars == <<overflow_checks, portParams, portFields, pinParams, pinFields, ret, panicked,
          history,
          pinHistory, second>>

\* =========================================================== PortDebouncer

\* new: repeat_ticks / N::USIZE
NewRepeatTicks(n, r) == r \div n
\* (variant: the bias of -1 is forgotten)
NewHoldTicks_NoBias(n, h) == h \div n
\* new: hold_ticks / N::USIZE - 1
NewHoldTicks(n, h) == (h \div n) - 1

PortNew(n, btns, r, h) ==
    /\ N = n
    /\ BTNS = btns
    /\ new_repeat_ticks = r
    /\ new_hold_ticks = h
    /\ port_states = [i \in 1..n |-> {}]
    /\ current_index = 0
    /\ last_debounced_state = {}
    /\ debounced_state = {}
    /\ changed_to_pressed = {}
    /\ repeat_ticks = NewRepeatTicks(n, r)
    /\ hold_ticks = NewHoldTicks(n, h)
    /\ counter = [i \in 0..(btns - 1) |-> 0]

\* update: the slot of the ring that receives the sample (1-based here)
WriteSlot(idx) == idx + 1

\* update: debounced_state = 0xFFFF_FFFF; for &state in port_states { debounced_state &= state }
RECURSIVE AndFrom(_, _, _)
AndFrom(acc, ring, i) ==
    IF i > Len(ring) THEN acc ELSE AndFrom(BitAnd(acc, ring[i]), ring, i + 1)
\* (variant: the fold misses the first slot of the ring)
DebouncedOf_SkipFirst(ring) == AndFrom(AllOnes, ring, 2)
DebouncedOf(ring) == AndFrom(AllOnes, ring, 1)

\* (variant: the flag follows the level, not the edge)
ChangedOf_Level(last, deb) == deb
\* update: changed_to_pressed = !last_debounced_state & debounced_state
ChangedOf(last, deb) == BitAnd(BitNot(last), deb)

\* (variant: a counter is not reset when the pin is released)
CounterStep_NoReset(c, last, deb, index, cap) ==
    IF BitAnd(BitAnd(last, deb), Shl1(index)) # {}
    THEN (IF U32Lt(c, cap) THEN c + 1 ELSE c)
    ELSE c
\* (variant: the counter does not saturate)
CounterStep_NoCap(c, last, deb, index, cap) ==
    IF BitAnd(BitAnd(last, deb), Shl1(index)) # {} THEN c + 1 ELSE 0
\* (variant: the test forgets the mask of the pin)
CounterStep_AnyPin(c, last, deb, index, cap) ==
    IF BitAnd(last, deb) # {}
    THEN (IF U32Lt(c, cap) THEN c + 1 ELSE c)
    ELSE 0
\* (variant: the counter already moves in the window of the press edge)
CounterStep_OnLevel(c, last, deb, index, cap) ==
    IF BitAnd(deb, Shl1(index)) # {}
    THEN (IF U32Lt(c, cap) THEN c + 1 ELSE c)
    ELSE 0
\* update: one iteration of the loop over the counters
CounterStep(c, last, deb, index, cap) ==
    IF BitAnd(BitAnd(last, deb), Shl1(index)) # {}
    THEN (IF U32Lt(c, cap) THEN c + 1 ELSE c)
    ELSE 0

\* (variant: the window is one call longer)
WindowDone_Late(idx, n) == ~(idx # n)
\* update: does this call complete the window?
WindowDone(idx, n) == ~(idx # n - 1)

\* (variant: Repeat is decided against hold_ticks alone)
GetStateResult_HoldOnly(pin) ==
    IF pin >= BTNS THEN "BtnUninitialized"
    ELSE IF BitAnd(changed_to_pressed, Shl1(pin)) # {} THEN "ChangedToPressed"
    ELSE IF U32Geq(counter[pin], hold_ticks) THEN "Repeat"
    ELSE IF BitAnd(debounced_state, Shl1(pin)) # {} THEN "Pressed"
    ELSE "UnPressed"
\* the fields of a PortDebouncer as one value
PortRec(ring, idx, last, deb, changed, cnt) ==
    [port_states |-> ring, current_index |-> idx, last_debounced_state |-> last,
     debounced_state |-> deb, changed_to_pressed |-> changed, counter |-> cnt]
PortNow ==
    PortRec(port_states, current_index, last_debounced_state, debounced_state,
            changed_to_pressed, counter)

\* get_state: the value returned for `pin` by a debouncer with fields s
GetStateOf(s, pin) ==
    IF pin >= BTNS THEN "BtnUninitialized"
    ELSE IF BitAnd(s.changed_to_pressed, Shl1(pin)) # {} THEN "ChangedToPressed"
    ELSE IF U32Geq(s.counter[pin], hold_ticks + repeat_ticks) THEN "Repeat"
    ELSE IF U32Geq(s.counter[pin], hold_ticks) THEN "Hold"
    ELSE IF BitAnd(s.debounced_state, Shl1(pin)) # {} THEN "Pressed"
    ELSE "UnPressed"
\* get_state: the value returned for `pin` in the current state
GetStateResult(pin) == GetStateOf(PortNow, pin)

\* (variants: the counter is cleared, or left alone, when Repeat is reported)
RepeatRewind_ToZero(c, rt) == 0
RepeatRewind_Keep(c, rt) == c
\* (variant: the counter is taken back twice as far)
RepeatRewind_Twice(c, rt) == c - 2 * rt
\* get_state: counter[pin] -= repeat_ticks (the u32 difference, wrapped if c < rt)
RepeatRewind(c, rt) == c - rt

\* update: the fields after the call on a debouncer with fields s
UpdateOf(s, port_value) ==
    LET ring == [s.port_states EXCEPT ![WriteSlot(s.current_index)] = port_value]
        deb  == DebouncedOf(ring)
        cap  == hold_ticks + repeat_ticks
    IN  IF ~WindowDone(s.current_index, N)
        THEN [s EXCEPT !.port_states = ring, !.current_index = @ + 1]
        ELSE PortRec(ring, 0, deb, deb, ChangedOf(s.last_debounced_state, deb),
                     [index \in DOMAIN s.counter |->
                        CounterStep(s.counter[index], s.last_debounced_state,
                                    deb, index, cap)])
\* update: the value returned
UpdateRetOf(s) == IF WindowDone(s.current_index, N) THEN "true" ELSE "false"

\* get_state: the subtraction on the Repeat branch overflows, in a build that checks
GetStatePanicsOf(s, pin) ==
    /\ overflow_checks
    /\ GetStateOf(s, pin) = "Repeat"
    /\ U32Lt(s.counter[pin], repeat_ticks)
\* get_state: the fields after the call
AfterGetStateOf(s, pin) ==
    IF GetStateOf(s, pin) = "Repeat" /\ ~GetStatePanicsOf(s, pin)
    THEN [s EXCEPT !.counter[pin] = RepeatRewind(@, repeat_ticks)]
    ELSE s

\* ---- history bookkeeping shared by both debouncers
Pins == 0..(BTNS - 1)
OnesOf(w) == {b \in U32Bits : \A i \in 1..Len(w) : b \in w[i]}
KindOf(w, p) ==
    IF \A i \in 1..Len(w) : p \in w[i] THEN "ones"
    ELSE IF \A i \in 1..Len(w) : p \notin w[i] THEN "zeros"
    ELSE "mixed"

\* hold_ticks = H*N and repeat_ticks = R*N, in windows
HoldWindows == new_hold_ticks \div N
RepeatWindows == new_repeat_ticks \div N
WholeWindows == new_hold_ticks % N = 0 /\ new_repeat_ticks % N = 0

\* PinDebouncer: the arguments of new counted in windows
PinHoldWindows == pin_new_hold_ticks \div pin_new_press_ticks
PinRepeatWindows == pin_new_repeat_ticks \div pin_new_press_ticks
PinWholeWindows ==
    /\ pin_new_hold_ticks % pin_new_press_ticks = 0
    /\ pin_new_repeat_ticks % pin_new_press_ticks = 0

\* the streak counter saturates one window past the second Repeat of a press
PortStreakCap == Min(MaxStreak, HoldWindows + 2 * RepeatWindows + 1)
PinStreakCap == Min(MaxStreak, PinHoldWindows + 2 * PinRepeatWindows + 1)

\* an update call with sample v; the n-th call of a window completes it
HistoryOnUpdate(v, n, cap) ==
    LET w == Append(hist, v)
        done == Len(w) = n
        st == IF KindOf(w, obs) = "ones" THEN Min(streak + 1, cap) ELSE 0
    IN  /\ zeroRun' = IF obs \in v THEN 0 ELSE Min(zeroRun + 1, n)
        /\ IF done
           THEN /\ hist' = << >>
                /\ ones' = OnesOf(w)
                /\ lastWin' = KindOf(w, obs)
                /\ streak' = st
                /\ polled' = IF st <= 1 \/ polled = "once" THEN "due" ELSE "off"
           ELSE /\ hist' = w
                /\ UNCHANGED <<ones, lastWin, streak, polled>>
        /\ UNCHANGED obs

HistoryOnPoll(pin) ==
    /\ polled' = IF pin # obs THEN polled ELSE IF polled = "due" THEN "once" ELSE "off"
    /\ UNCHANGED <<obs, hist, ones, lastWin, streak, zeroRun>>

HistoryInit(pins) ==
    /\ obs \in pins
    /\ hist = << >>
    /\ ones = {}
    /\ lastWin = "none"
    /\ streak = 0
    /\ polled = "due"
    /\ zeroRun = 0
    /\ repeated = FALSE
    /\ prompt = "done"
    /\ before = "none"

\* ---- the calls
PortBecomes(s) ==
    /\ port_states' = s.port_states
    /\ current_index' = s.current_index
    /\ last_debounced_state' = s.last_debounced_state
    /\ debounced_state' = s.debounced_state
    /\ changed_to_pressed' = s.changed_to_pressed
    /\ counter' = s.counter

\* update(port_value) on the PortDebouncer
PortUpdateCall(port_value) ==
    /\ PortBecomes(UpdateOf(PortNow, port_value))
    /\ ret' = [op |-> "update", pin |-> 0, val |-> UpdateRetOf(PortNow)]

\* get_state(pin) on the PortDebouncer
PortGetStateCall(pin) ==
    /\ PortBecomes(AfterGetStateOf(PortNow, pin))
    /\ ret' = [op |-> "get_state", pin |-> pin,
               val |-> IF GetStatePanicsOf(PortNow, pin) THEN "panic"
                       ELSE GetStateResult(pin)]

PortUpdate(port_value) ==
    /\ ~panicked
    /\ PortUpdateCall(port_value)
    /\ HistoryOnUpdate(port_value, N, PortStreakCap)
    /\ UNCHANGED <<overflow_checks, portParams, pinParams, pinFields, panicked, repeated, pinHistory, second>>

PortGetState(pin) ==
    /\ ~panicked
    /\ PortGetStateCall(pin)
    /\ panicked' = GetStatePanicsOf(PortNow, pin)
    /\ HistoryOnPoll(pin)
    /\ UNCHANGED <<overflow_checks, portParams, pinParams, pinFields, repeated, pinHistory, second>>

\* ============================================================ PinDebouncer

\* new: press_ticks - 1
PinNewPressTicks(p) == p - 1
\* new: hold_ticks - 1
PinNewHoldTicks(h) == h - 1

PinNew(p, r, h) ==
    /\ pin_new_press_ticks = p
    /\ pin_new_repeat_ticks = r
    /\ pin_new_hold_ticks = h
    /\ pin_current_index = 0
    /\ pin_last_debounced_state = "UnPressed"
    /\ pin_debounced_state = "UnPressed"
    /\ pin_press_ticks = PinNewPressTicks(p)
    /\ pin_repeat_ticks = r
    /\ pin_hold_ticks = PinNewHoldTicks(h)
    /\ pin_counter = 0

\* update: the counter, moved on every call
PinCounterStep(c, pin_value, cap) ==
    IF pin_value THEN (IF U32Lt(c, cap) THEN c + 1 ELSE c) ELSE 0

\* update: does this call complete the window?
PinWindowDone(idx, pt) == ~(idx # pt)

\* update: the state computed when a window completes
PinWindowState(c, last, pt, ht, rt) ==
    LET d == IF U32Geq(c, pt) THEN "Pressed" ELSE "UnPressed"
    IN  IF last = "UnPressed" /\ d = "Pressed" THEN "ChangedToPressed"
        ELSE IF U32Geq(c, ht + rt) THEN "Repeat"
        ELSE IF U32Geq(c, ht) THEN "Hold"
        ELSE d

\* (variant: the counter is cleared when Repeat is reported)
PinRepeatRewind_ToZero(c, rt) == 0
\* get_state: counter -= repeat_ticks (the u32 difference, wrapped if c < rt:
\* 0 - 1 is -1, which stands for 4294967295)
PinRepeatRewind(c, rt) == c - rt

PinSample(pin_value) == IF pin_value THEN {0} ELSE {}

\* update: the value returned
PinUpdateRet == IF PinWindowDone(pin_current_index, pin_press_ticks) THEN "true" ELSE "false"

\* update(pin_value) on the PinDebouncer
PinUpdateCall(pin_value) ==
    LET c == PinCounterStep(pin_counter, pin_value, pin_hold_ticks + pin_repeat_ticks)
        done == PinWindowDone(pin_current_index, pin_press_ticks)
        d == PinWindowState(c, pin_last_debounced_state, pin_press_ticks,
                            pin_hold_ticks, pin_repeat_ticks)
    IN  /\ pin_counter' = c
        /\ IF ~done
           THEN /\ pin_current_index' = pin_current_index + 1
                /\ UNCHANGED <<pin_last_debounced_state, pin_debounced_state>>
           ELSE /\ pin_current_index' = 0
                /\ pin_debounced_state' = d
                /\ pin_last_debounced_state' = d

\* get_state: the subtraction on the Repeat branch overflows, in a build that checks
PinGetStatePanics ==
    /\ overflow_checks
    /\ pin_debounced_state = "Repeat"
    /\ U32Lt(pin_counter, pin_repeat_ticks)

\* The calls a specification issues: get_state is always possible, and on a
\* wrapped counter every Repeat takes it further down, 2^32 / repeat_ticks
\* times over; the specifications stop asking once the next Repeat would take
\* the counter below 2^32 - MaxBelow.
PinRewindInRange ==
    pin_debounced_state = "Repeat" =>
        PinRepeatRewind(pin_counter, pin_repeat_ticks) >= 0 - MaxBelow
\* get_state: the value returned
PinGetStateRet == IF PinGetStatePanics THEN "panic" ELSE pin_debounced_state

\* get_state() on the PinDebouncer
PinGetStateCall ==
    /\ IF pin_debounced_state = "Repeat" /\ ~PinGetStatePanics
       THEN /\ pin_counter' = PinRepeatRewind(pin_counter, pin_repeat_ticks)
            /\ pin_debounced_state' = "Hold"
       ELSE UNCHANGED <<pin_counter, pin_debounced_state>>
    /\ UNCHANGED <<pin_current_index, pin_last_debounced_state>>

\* history kept where a PinDebouncer runs
PinHistoryOnUpdate(v, n) ==
    LET w == Append(hist, v)
        p == IF prompt = "due" THEN "off" ELSE prompt
    IN  /\ prompt' = IF Len(w) = n /\ p = "done" THEN "due" ELSE p
        /\ before' = IF Len(w) = n /\ KindOf(w, 0) # "ones" THEN KindOf(w, 0) ELSE before
        /\ repeated' = (repeated /\ Len(w) # n)

PinHistoryOnPoll(val) ==
    /\ prompt' = IF prompt = "due" THEN "done" ELSE "off"
    /\ repeated' = (repeated \/ val = "Repeat")
    /\ UNCHANGED before

PinUpdate(pin_value) ==
    /\ ~panicked
    /\ PinUpdateCall(pin_value)
    /\ ret' = [op |-> "update", pin |-> 0, val |-> PinUpdateRet]
    /\ HistoryOnUpdate(PinSample(pin_value), pin_new_press_ticks, PinStreakCap)
    /\ PinHistoryOnUpdate(PinSample(pin_value), pin_new_press_ticks)
    /\ UNCHANGED <<overflow_checks, portParams, portFields, pinParams, panicked, second>>

PinGetState ==
    /\ ~panicked
    /\ PinGetStateCall
    /\ ret' = [op |-> "get_state", pin |-> 0, val |-> PinGetStateRet]
    /\ panicked' = PinGetStatePanics
    /\ HistoryOnPoll(0)
    /\ PinHistoryOnPoll(PinGetStateRet)
    /\ UNCHANGED <<overflow_checks, portParams, portFields, pinParams, second>>

\* ========================================================== specifications

\* The <<repeat_ticks, hold_ticks>> arguments tried for window length n: every
\* pair of multiples of n, and two pairs that are not multiples of n (below n
\* and 2n, and below 2n and 3n), all with hold_ticks >= n.
PortArgs(n) ==
    {<<R * n, H * n>> : R \in 0..MaxRepeat, H \in 1..MaxHold}
    \cup {<<n - 1, 2 * n - 1>>, <<2 * n - 1, 3 * n - 1>>}

\* the object that a specification does not exercise stays as constructed
PinIdle == PinNew(1, 0, 1)
PortIdle == PortNew(1, 1, 0, 1)

\* the second outcome and the second PortDebouncer, as constructed
SecondInit ==
    /\ pin_ret = [op |-> "new", pin |-> 0, val |-> "none"]
    /\ solo = PortNow
    /\ solo_ret = "none"

\* ---- a PortDebouncer under every sequence of update and get_state calls.
\* The two builds differ only from an overflowing subtraction on, and the
\* PortDebouncer's one subtraction never overflows for these arguments (C1),
\* so its behaviours are the same in both builds; they are generated once.
Init ==
    /\ \E n \in 1..MaxN, btns \in 1..MaxBtns :
         \E a \in PortArgs(n) :
            /\ PortNew(n, btns, a[1], a[2])
            /\ HistoryInit(0..(btns - 1))
    /\ PinIdle
    /\ ret = [op |-> "new", pin |-> 0, val |-> "none"]
    /\ overflow_checks = TRUE
    /\ panicked = FALSE
    /\ SecondInit

Next ==
    \/ \E port_value \in SUBSET (0..(MaxBtns - 1)) : PortUpdate(port_value)
    \/ \E pin \in 0..BTNS : PortGetState(pin)

Spec == Init /\ [][Next]_vars

\* ---- a PinDebouncer under every sequence of update and get_state calls
PinInit ==
    /\ \E p \in 1..MaxN :
         \E r \in 0..(MaxRepeat * p), h \in p..(MaxHold * p) : PinNew(p, r, h)
    /\ HistoryInit({0})
    /\ PortIdle
    /\ ret = [op |-> "new", pin |-> 0, val |-> "none"]
    /\ overflow_checks \in BOOLEAN
    /\ panicked = FALSE
    /\ SecondInit

PinNext ==
    \/ \E pin_value \in BOOLEAN : PinUpdate(pin_value)
    \/ PinRewindInRange /\ PinGetState

PinSpec == PinInit /\ [][PinNext]_vars

\* ---- a PortDebouncer<N, 1> and a PinDebouncer built with the same arguments,
\* ---- given the same samples and asked for their state together
BothInit ==
    /\ \E n \in 1..MaxN :
         \E a \in PortArgs(n) :
            /\ PortNew(n, 1, a[1], a[2])
            /\ PinNew(n, a[1], a[2])
    /\ HistoryInit({0})
    /\ ret = [op |-> "new", pin |-> 0, val |-> "none"]
    /\ overflow_checks \in BOOLEAN
    /\ panicked = FALSE
    /\ SecondInit

BothUpdate(pin_value) ==
    /\ ~panicked
    /\ PortUpdateCall(PinSample(pin_value))
    /\ PinUpdateCall(pin_value)
    /\ pin_ret' = [op |-> "update", pin |-> 0, val |-> PinUpdateRet]
    /\ HistoryOnUpdate(PinSample(pin_value), N, PortStreakCap)
    /\ PinHistoryOnUpdate(PinSample(pin_value), N)
    /\ UNCHANGED <<overflow_checks, portParams, pinParams, panicked, solo, solo_ret>>

BothGetState ==
    /\ ~panicked
    /\ PortGetStateCall(0)
    /\ PinGetStateCall
    /\ pin_ret' = [op |-> "get_state", pin |-> 0, val |-> PinGetStateRet]
    /\ panicked' = (GetStatePanicsOf(PortNow, 0) \/ PinGetStatePanics)
    /\ HistoryOnPoll(0)
    /\ PinHistoryOnPoll(PinGetStateRet)
    /\ UNCHANGED <<overflow_checks, portParams, pinParams, solo, solo_ret>>

BothNext ==
    \/ \E pin_value \in BOOLEAN : BothUpdate(pin_value)
    \/ PinRewindInRange /\ BothGetState

BothSpec == BothInit /\ [][BothNext]_vars

\* ---- a PortDebouncer under every sequence of calls, next to a second one that
\* ---- sees only bit obs of every sample and only the get_state(obs) calls
SoloUpdate(port_value) ==
    /\ ~panicked
    /\ PortUpdateCall(port_value)
    /\ solo' = UpdateOf(solo, BitAnd(port_value, Shl1(obs)))
    /\ UNCHANGED <<overflow_checks, portParams, pinParams, pinFields, panicked, history, pinHistory,
                   pin_ret, solo_ret>>

SoloGetState(pin) ==
    /\ ~panicked
    /\ PortGetStateCall(pin)
    /\ panicked' = GetStatePanicsOf(PortNow, pin)
    /\ IF pin = obs
       THEN /\ solo' = AfterGetStateOf(solo, pin)
            /\ solo_ret' = IF GetStatePanicsOf(solo, pin) THEN "panic"
                           ELSE GetStateOf(solo, pin)
       ELSE UNCHANGED <<solo, solo_ret>>
    /\ UNCHANGED <<overflow_checks, portParams, pinParams, pinFields, history, pinHistory, pin_ret>>

SoloNext ==
    \/ \E port_value \in SUBSET (0..(MaxBtns - 1)) : SoloUpdate(port_value)
    \/ \E pin \in 0..BTNS : SoloGetState(pin)

SoloSpec == Init /\ [][SoloNext]_vars

\* ================================================= properties: PortDebouncer

\* The last call was get_state(obs), and it was the one poll of obs after the
\* last completed window, every earlier window of the streak having been
\* polled exactly once as well.
PolledObsOnce == ret.op = "get_state" /\ ret.pin = obs /\ polled = "once"


\* C1: get_state(pin) returns Err(BtnUninitialized) and leaves every field alone
\* when pin >= BTNS; when pin < BTNS it returns Ok with one BtnState and does not
\* fail: wherever it would report Repeat, counter[pin] - repeat_ticks is not
\* negative.
C1_GetStateTotal ==
    [][ /\ \A p \in Pins : GetStateResult(p) = "Repeat" => counter[p] - repeat_ticks >= 0
        /\ ret'.op = "get_state" =>
             /\ ~panicked'
             /\ ret'.pin >= BTNS =>
                  ret'.val = "BtnUninitialized" /\ UNCHANGED <<portFields, portParams>>
             /\ ret'.pin < BTNS => ret'.val \in BtnStates ]_vars

C1_Witness ==
    /\ ret.op = "get_state" /\ ret.pin >= BTNS /\ ret.val = "BtnUninitialized"
    /\ debounced_state # {}
    /\ counter[obs] > 0

\* C2: after an update call that completes a window, bit p of debounced_state is
\* set exactly when bit p was set in every one of the N samples of that window.
C2_DebouncedIsWindowAnd ==
    (ret.op = "update" /\ hist = << >>) => debounced_state = ones

C2_Witness ==
    /\ ret.op = "update" /\ hist = << >>
    /\ N = MaxN
    /\ changed_to_pressed # {}
    /\ debounced_state # changed_to_pressed

\* C3 (as claimed): with hold_ticks >= N and any repeat_ticks, while pin obs was 0
\* in every sample of the last completed window, or no window has completed yet,
\* get_state(obs) returns UnPressed.
C3_ReleasedIsUnPressed ==
    (ret.op = "get_state" /\ ret.pin = obs /\ lastWin \in {"none", "zeros"})
        => ret.val = "UnPressed"

\* C6: hold_ticks = H*N with H >= 2, repeat_ticks = R*N with R >= 1, pin obs
\* pressed in every sample since a window in which it was not, and polled once
\* after each completed window: the poll after pressed window 1 returns
\* ChangedToPressed, after windows 2..H-1 Pressed, after window H Hold.
C6_PressThenHold ==
    (WholeWindows /\ HoldWindows >= 2 /\ RepeatWindows >= 1 /\ PolledObsOnce) =>
        /\ streak = 1 => ret.val = "ChangedToPressed"
        /\ (2 <= streak /\ streak <= HoldWindows - 1) => ret.val = "Pressed"
        /\ streak = HoldWindows => ret.val = "Hold"

C6_Witness ==
    /\ WholeWindows /\ HoldWindows = 3 /\ RepeatWindows >= 1 /\ N = MaxN
    /\ PolledObsOnce /\ streak = HoldWindows /\ ret.val = "Hold"

\* C7: same setting: Repeat is returned for the first time after pressed window
\* H+R and from then on after every R-th window, Hold at every poll in between.
C7_RepeatEveryR ==
    (WholeWindows /\ HoldWindows >= 2 /\ RepeatWindows >= 1 /\ PolledObsOnce
       /\ streak < PortStreakCap) =>
        /\ streak < HoldWindows + RepeatWindows => ret.val # "Repeat"
        /\ streak >= HoldWindows =>
             ret.val = IF /\ streak >= HoldWindows + RepeatWindows
                          /\ (streak - HoldWindows) % RepeatWindows = 0
                       THEN "Repeat" ELSE "Hold"

C7_Witness ==
    /\ WholeWindows /\ HoldWindows >= 2 /\ RepeatWindows = 2 /\ N = MaxN
    /\ PolledObsOnce /\ streak = HoldWindows + 2 * RepeatWindows /\ ret.val = "Repeat"

\* C8 (as claimed): hold_ticks >= N and repeat_ticks any multiple of N: a
\* get_state(p) that follows, with no update in between, a get_state(p) that
\* returned Repeat returns Hold.
C8_RepeatThenHold ==
    [][ (/\ new_repeat_ticks % N = 0
         /\ ret.op = "get_state" /\ ret.val = "Repeat"
         /\ ret'.op = "get_state" /\ ret'.pin = ret.pin)
        => ret'.val = "Hold" ]_vars

\* C8 (amended): the same for repeat_ticks a multiple of N that is not 0.
C8_RepeatThenHold_Positive ==
    [][ (/\ new_repeat_ticks % N = 0 /\ new_repeat_ticks > 0
         /\ ret.op = "get_state" /\ ret.val = "Repeat"
         /\ ret'.op = "get_state" /\ ret'.pin = ret.pin)
        => ret'.val = "Hold" ]_vars

\* the second of two polls of a window that follows windows without a poll
C8_Witness ==
    /\ new_repeat_ticks % N = 0 /\ new_repeat_ticks > 0
    /\ ret.op = "get_state" /\ ret.pin = obs /\ ret.val = "Hold"
    /\ polled = "off" /\ streak = PortStreakCap
    /\ counter[obs] = hold_ticks

\* C10: hold_ticks >= 2N: after N consecutive update calls with bit obs = 0,
\* wherever in the window they start, counter[obs] is 0 and get_state(obs)
\* returns UnPressed.
C10_ReleaseResets ==
    (new_hold_ticks >= 2 * N /\ zeroRun >= N) =>
        /\ counter[obs] = 0
        /\ GetStateResult(obs) = "UnPressed"
        /\ (ret.op = "get_state" /\ ret.pin = obs) => ret.val = "UnPressed"

C10_Witness ==
    /\ new_hold_ticks >= 2 * N /\ zeroRun >= N /\ N = MaxN
    /\ lastWin = "mixed" /\ current_index > 0
    /\ ret.op = "get_state" /\ ret.pin = obs /\ ret.val = "UnPressed"

\* ================================================== properties: PinDebouncer

\* C4 (as claimed): press_ticks >= 1, hold_ticks >= press_ticks: once a window
\* completes in which every sample was false, get_state returns UnPressed until
\* the next window completes.
C4_PinReleasedIsUnPressed ==
    (ret.op = "get_state" /\ lastWin = "zeros") => ret.val = "UnPressed"

\* C5 (as claimed): press_ticks >= 1, hold_ticks >= press_ticks: no call fails,
\* and whenever the stored state is Repeat, counter >= repeat_ticks.
C5_PinNeverFails ==
    /\ ~panicked
    /\ pin_debounced_state = "Repeat" => U32Geq(pin_counter, pin_repeat_ticks)

\* C9 (as claimed): a get_state call that finds the stored state Repeat returns
\* Repeat, lowers counter by repeat_ticks and stores Hold; every later get_state
\* before the next window-completing update returns Hold.
C9_PinRepeatOnce ==
    [][ ret'.op = "get_state" =>
          /\ pin_debounced_state = "Repeat" =>
               /\ ret'.val = "Repeat"
               /\ pin_counter' = pin_counter - pin_repeat_ticks
               /\ pin_debounced_state' = "Hold"
          /\ repeated => ret'.val = "Hold" ]_vars

\* ================================================== properties: both debouncers


\* C11 (as claimed): N >= 1, hold_ticks >= N, hold_ticks and repeat_ticks
\* multiples of N: PinDebouncer::new(N, repeat_ticks, hold_ticks) and
\* PortDebouncer<N, 1>::new(repeat_ticks, hold_ticks), given the same samples and
\* both asked once after each completed window, return the same BtnState at
\* every poll.
C11_PinEqualsPort ==
    (WholeWindows /\ new_hold_ticks >= N /\ ret.op = "get_state" /\ prompt = "done")
        => pin_ret.val = ret.val

\* C12 (as claimed): press_ticks = P >= 2, hold_ticks = H*P with H >= 2,
\* repeat_ticks = R*P with R >= 1: after a completed all-false window, with true
\* on every sample and get_state called once after each completed window (at
\* any point before the next window completes), the PinDebouncer returns
\* ChangedToPressed after window 1, Pressed after windows 2..H-1, Hold after
\* windows H..H+R-1, Repeat after window H+R, and from then on Repeat every
\* R-th window and Hold after the windows in between.
C12_PinPressSchedule_AnyPoll ==
    ( /\ pin_new_press_ticks >= 2 /\ PinWholeWindows
      /\ PinHoldWindows >= 2 /\ PinRepeatWindows >= 1
      /\ PolledObsOnce
      /\ before = "zeros" /\ streak >= 1 /\ streak < PinStreakCap
      /\ \A i \in 1..Len(hist) : 0 \in hist[i] )
    => ret.val = IF streak = 1 THEN "ChangedToPressed"
                 ELSE IF streak < PinHoldWindows THEN "Pressed"
                 ELSE IF streak < PinHoldWindows + PinRepeatWindows THEN "Hold"
                 ELSE IF (streak - PinHoldWindows) % PinRepeatWindows = 0 THEN "Repeat"
                 ELSE "Hold"

\* C12 (amended): the same, with every get_state call made right after the
\* update that completed the window, before the next update.
C12_PinPressSchedule ==
    ( /\ pin_new_press_ticks >= 2 /\ PinWholeWindows
      /\ PinHoldWindows >= 2 /\ PinRepeatWindows >= 1
      /\ ret.op = "get_state" /\ prompt = "done"
      /\ before = "zeros" /\ streak >= 1 /\ streak < PinStreakCap )
    => ret.val = IF streak = 1 THEN "ChangedToPressed"
                 ELSE IF streak < PinHoldWindows THEN "Pressed"
                 ELSE IF streak < PinHoldWindows + PinRepeatWindows THEN "Hold"
                 ELSE IF (streak - PinHoldWindows) % PinRepeatWindows = 0 THEN "Repeat"
                 ELSE "Hold"

\* the second Repeat of a press, R >= 2 windows after the first one
C12_Witness ==
    /\ pin_new_press_ticks >= 2 /\ PinWholeWindows
    /\ PinHoldWindows >= 2 /\ PinRepeatWindows >= 2
    /\ ret.op = "get_state" /\ prompt = "done" /\ before = "zeros"
    /\ streak = PinHoldWindows + 2 * PinRepeatWindows /\ streak < PinStreakCap
    /\ ret.val = "Repeat"

\* C13: what get_state(obs) returns depends only on bit obs of the samples and
\* on the get_state(obs) calls: every run returns, at each get_state(obs), what
\* the second debouncer returns, which was given bit obs of the same samples
\* with every other bit cleared, and the get_state(obs) calls alone. Two runs
\* that agree on bit obs and on the get_state(obs) calls agree with the same
\* second run, hence with each other.
C13_PinIndependent ==
    (ret.op = "get_state" /\ ret.pin = obs) => ret.val = solo_ret

\* Repeat for obs while another pin has its own counter, ring and debounced bit
C13_Witness ==
    /\ ret.op = "get_state" /\ ret.pin = obs /\ ret.val = "Repeat"
    /\ \E q \in Pins : q # obs /\ counter[q] > 0 /\ solo.counter[q] = 0
    /\ solo.port_states # port_states
    /\ solo.debounced_state # debounced_state

\* C14: hold_ticks >= N: 0 <= counter[p] <= hold_ticks + repeat_ticks (the
\* stored, normalized values) for every pin p < BTNS, in every state.
C14_CounterBounded ==
    new_hold_ticks >= N =>
        \A p \in Pins : 0 <= counter[p] /\ counter[p] <= hold_ticks + repeat_ticks

\* the counter stayed at the cap for a window in which it would have moved
C14_Witness ==
    /\ new_hold_ticks >= N /\ hold_ticks + repeat_ticks >= 2
    /\ counter[obs] = hold_ticks + repeat_ticks
    /\ streak > hold_ticks + repeat_ticks + 1
    /\ ret.op = "update" /\ ret.val = "true"

\* C15 (as claimed): at each window-completing update of the PinDebouncer the
\* recomputed state is a pressed state if and only if counter >= press_ticks,
\* press_ticks being the value passed to new; so a window yields a pressed
\* state only if all its press_ticks samples were true.
C15_PinPressedIffFullWindow ==
    (ret.op = "update" /\ ret.val = "true") =>
        /\ (pin_debounced_state # "UnPressed") <=> U32Geq(pin_counter, pin_new_press_ticks)
        /\ pin_debounced_state # "UnPressed" => lastWin = "ones"

\* C16: a window completion sets the edge flag of obs exactly when obs debounced
\* to 0 in the previous completed window and to 1 in this one; get_state does
\* not consume it (every get_state(obs) before the next completion returns
\* ChangedToPressed) and the next completion clears it, so ChangedToPressed is
\* never returned after two consecutive completions.
C16_EdgeFlag ==
    /\ (obs \in changed_to_pressed) <=> (streak = 1)
    /\ (ret.op = "get_state" /\ ret.pin = obs) =>
          ((ret.val = "ChangedToPressed") <=> (streak = 1))

\* a second get_state(obs) in the window of the edge still returns ChangedToPressed
C16_Witness ==
    /\ ret.op = "get_state" /\ ret.pin = obs /\ ret.val = "ChangedToPressed"
    /\ streak = 1 /\ polled = "off"

\* C17: update returns true exactly on the N-th, 2N-th, ... call, whatever the
\* get_state calls in between, and false otherwise; a call that returns false
\* changes only the ring slot at current_index and current_index, so no
\* get_state result changes with it.
C17_UpdateReturn ==
    [][ ret'.op = "update" =>
          /\ (ret'.val = "true") <=> (hist' = << >>)
          /\ ret'.val = "false" =>
               /\ current_index' = current_index + 1
               /\ \A i \in DOMAIN port_states :
                     i # current_index + 1 => port_states'[i] = port_states[i]
               /\ UNCHANGED <<last_debounced_state, debounced_state,
                              changed_to_pressed, counter, portParams>>
               /\ \A p \in Pins : GetStateResult(p)' = GetStateResult(p) ]_vars

\* a call inside a window, while a pin is counted as held down
C17_Witness ==
    /\ ret.op = "update" /\ ret.val = "false"
    /\ N = MaxN /\ current_index = N - 1
    /\ counter[obs] > 0 /\ obs \notin port_states[current_index]

\* C18: get_state(p) changes the debouncer only when it returns Repeat, and then
\* only counter[p], lowered by exactly the stored repeat_ticks; it never changes
\* the ring, current_index, debounced_state, last_debounced_state,
\* changed_to_pressed or another pin's counter.
C18_GetStateFrame ==
    [][ ret'.op = "get_state" =>
          /\ UNCHANGED <<port_states, current_index, last_debounced_state,
                         debounced_state, changed_to_pressed, portParams>>
          /\ \A q \in Pins :
                counter'[q] = IF q = ret'.pin /\ ret'.val = "Repeat"
                              THEN counter[q] - repeat_ticks
                              ELSE counter[q] ]_vars

\* Repeat for obs took its counter back to hold_ticks; another pin's counter stands
C18_Witness ==
    /\ ret.op = "get_state" /\ ret.pin = obs /\ ret.val = "Repeat"
    /\ repeat_ticks > 0 /\ counter[obs] = hold_ticks
    /\ \E q \in Pins : q # obs /\ counter[q] > hold_ticks

\* C19 (as claimed): the PinDebouncer's update returns true exactly on the
\* press_ticks-th, 2*press_ticks-th, ... call; counter moves on every call (plus
\* 1 on true unless already at the cap, the stored hold_ticks + repeat_ticks; 0
\* on false); debounced_state and last_debounced_state change only on calls
\* returning true.
C19_PinUpdateReturn ==
    [][ ret'.op = "update" =>
          /\ (ret'.val = "true") <=> (hist' = << >>)
          /\ pin_counter' =
                IF zeroRun' = 0
                THEN (IF pin_counter = pin_hold_ticks + pin_repeat_ticks
                      THEN pin_counter ELSE pin_counter + 1)
                ELSE 0
          /\ ret'.val = "false" =>
                UNCHANGED <<pin_debounced_state, pin_last_debounced_state>> ]_vars

\* C20: between operations last_debounced_state = debounced_state; for every
\* pin p < BTNS, counter[p] > 0 only if bit p of debounced_state is set, and the
\* edge flag of p is set only if counter[p] = 0 and bit p of debounced_state is
\* set; so with hold_ticks >= 2N get_state returns Hold or Repeat only for a
\* pin that is debounced-pressed, and no pin with its edge flag set has reached
\* the Repeat threshold.
C20_PortInvariant ==
    /\ last_debounced_state = debounced_state
    /\ \A p \in Pins :
          /\ counter[p] > 0 => p \in debounced_state
          /\ p \in changed_to_pressed => (counter[p] = 0 /\ p \in debounced_state)
          /\ new_hold_ticks >= 2 * N =>
                /\ GetStateResult(p) \in {"Hold", "Repeat"} => p \in debounced_state
                /\ p \in changed_to_pressed => counter[p] < hold_ticks + repeat_ticks

\* one pin is reported Hold while another has its edge flag set
C20_Witness ==
    /\ new_hold_ticks >= 2 * N
    /\ GetStateResult(obs) = "Hold"
    /\ \E q \in Pins : q \in changed_to_pressed /\ counter[q] = 0

====
